---------------------------- MODULE Spec2Model ----------------------------
(***************************************************************************)
(* Cache-first batch translation pipeline of Cloud_Localization.           *)
(*                                                                         *)
(* Two variants of the same program are modelled side by side:             *)
(*   "HF"  src/API_based_HFace_AppInsight/translation.py                   *)
(*   "VM"  src/VM_MbartModel/translation.py                                *)
(* The variant is fixed in the initial state.  The model follows main's    *)
(* loop over the blobs of the raw container and, inside it, every step of  *)
(* process_xlf_file: the collection of trans-units, the TM lookups, the MT *)
(* batch requests and their responses, the write-back with its TM inserts, *)
(* the commit and the document write.                                      *)
(*                                                                         *)
(* The TM store (SQL table Translations), the MT backend and the blob      *)
(* containers are the environment: the rows the table holds at start, its  *)
(* key constraint, the row a SELECT without ORDER BY yields first, the     *)
(* backend's responses and database faults are nondeterministic choices.   *)
(***************************************************************************)
EXTENDS Integers, Sequences, FiniteSets, TLC

(***************************************************************************)
(* Bounds of the model.                                                    *)
(***************************************************************************)
\* longest document (number of trans-unit elements)
MaxUnits == 3
\* documents one process of main handles
MaxRuns == 2
\* trans-units handled by one process of main, over all its documents
MaxTotalUnits == 3
\* items of one backend response that deviate from a plain translation
MaxOddItems == 1
\* add_segment calls made on a RunMetrics object outside main
MaxAddSegment == 3
\* batch sizes, scaled down from the program's 50 (HF, line 185) and 20
\* (VM, line 366) so that documents of MaxUnits units span several batches
BATCH_SIZE == 2
VM_BATCH_SIZE == 2

(***************************************************************************)
(* Values.                                                                 *)
(***************************************************************************)
\* Python's None
None == "<None>"
\* a test for None only, which takes "" for a value
Truthy_NotNone(x) == x # None
\* Python truthiness of an optional string: None and "" are falsy
Truthy(x) == x # None /\ x # ""

\* source texts of trans-units: two texts, and a whitespace-only text
SourceTexts == {"A", "B", " "}
\* str.strip() on the modelled texts
Strip(s) == IF s = " " THEN "" ELSE s

\* the language mapping table (identical in both variants)
lang_map ==
    ("ar-SA" :> "ar_AR") @@ ("de-DE" :> "de_DE") @@ ("en-US" :> "en_XX") @@
    ("es-ES" :> "es_XX") @@ ("fr-FR" :> "fr_XX") @@ ("hi-IN" :> "hi_IN") @@
    ("it-IT" :> "it_IT") @@ ("ja-JP" :> "ja_XX") @@ ("ko-KR" :> "ko_KR") @@
    ("nl-NL" :> "nl_XX") @@ ("pl-PL" :> "pl_PL") @@ ("pt-PT" :> "pt_XX") @@
    ("pt-BR" :> "pt_BR") @@ ("ru-RU" :> "ru_RU") @@ ("sv-SE" :> "sv_SE") @@
    ("tr-TR" :> "tr_TR") @@ ("uk-UA" :> "uk_UA") @@ ("zh-CN" :> "zh_CN") @@
    ("zh-TW" :> "zh_TW")

\* blob names as main splits them at ".": a mapped language, a language that
\* is not in lang_map, and a name without "."
BlobNames == { <<"doc", "fr-FR", "xlf">>, <<"doc", "fi-FI", "xlf">>, <<"README">> }
\* parts[-2]
TargetLangOf(parts) == parts[Len(parts) - 1]

\* the translation the MT backend produces for a source text
MT(s) == CASE s = "A" -> "mtA" [] s = "B" -> "mtB" [] OTHER -> "mtX"

\* a trans-unit element as parsed: its <source> text and its <target> text
\* (the modelled documents have both elements in every trans-unit, and the
\* target empty, as phase1 writes them)
Unit(s) == [source |-> s, target |-> ""]
\* the documents a blob may hold
Docs == UNION { [1..n -> {Unit(s) : s \in SourceTexts}] : n \in 1..MaxUnits }

\* a row of table Translations
Row(s, l, t) == [SourceText |-> s, TargetLang |-> l, TranslatedText |-> t]
\* rows the table may hold when main starts
InitRows == << Row("A", "fr-FR", "tmA"), Row("B", "fr-FR", ""), Row("A", "fi-FI", "tmA") >>
RECURSIVE SubSeqs(_)
SubSeqs(s) ==
    IF s = <<>> THEN { <<>> }
    ELSE LET rest == SubSeqs(Tail(s))
         IN  rest \cup { <<Head(s)>> \o r : r \in rest }
InitStores == SubSeqs(InitRows)

\* index set of the rows of a store with a given key
Matching(store, s, l) ==
    { k \in 1..Len(store) : store[k].SourceText = s /\ store[k].TargetLang = l }

\* query_translation: SELECT ... WHERE SourceText=? AND TargetLang=?, fetchone.
\* Without ORDER BY any matching row may come first.
query_translation(store, s, l) ==
    IF Matching(store, s, l) = {} THEN {None}
    ELSE { store[k].TranslatedText : k \in Matching(store, s, l) }

\* whether the INSERT of insert_translation violates the table's key
\* constraint (when the table has one)
InsertViolates(unique, store, s, l) == unique /\ Matching(store, s, l) # {}
\* insert_translation when the INSERT succeeds
insert_translation(store, s, l, t) == Append(store, Row(s, l, t))

NoneList(n) == [k \in 1..n |-> None]
Min(a, b) == IF a < b THEN a ELSE b
\* a slice that starts one element early, on the last element of the
\* slice before it
Slice_Overlap(s, i, n) == SubSeq(s, IF i > 0 THEN i ELSE 1, Min(Len(s), i + n))
\* a slice that stops one element early
Slice_Short(s, i, n) == SubSeq(s, i + 1, Min(Len(s), i + n - 1))
\* Python's s[i : i + n] with a 0-based i
Slice(s, i, n) == SubSeq(s, i + 1, Min(Len(s), i + n))


(***************************************************************************)
(* The MT backend's responses.                                             *)
(*                                                                         *)
(* A response is what requests.post yields: it raised (transport error),   *)
(* or it carries a status code and a JSON body.  A body is a JSON list or  *)
(* a JSON object ("dict") with its items: for HF the objects of the list,  *)
(* each with one field; for VM the strings under "translated_texts" (no    *)
(* items: the key is missing or its list is empty).                        *)
(***************************************************************************)
Item(f, v) == [field |-> f, value |-> v]
Response(r, c, k, its) == [raised |-> r, status_code |-> c, kind |-> k, items |-> its]

\* the field that carries a translation in a well-formed item
PlainField(var) == IF var = "HF" THEN "translation_text" ELSE "str"
\* the well-formed item at position k of the response to texts
PlainItem(var, texts, k) ==
    Item(PlainField(var), IF k <= Len(texts) THEN MT(texts[k]) ELSE "mtX")
\* the items the backend may put at position k
ItemChoices(var, texts, k) ==
    LET plain == PlainItem(var, texts, k)
    IN  IF var = "HF"
        THEN { plain, Item("generated_text", plain.value),
               Item("translation_text", ""), Item("label", "x") }
        ELSE { plain, Item("str", "") }
\* the item lists of a response to texts: one item less, as many, or one more
ItemLists(var, texts) ==
    LET n == Len(texts)
        all == UNION { ItemChoices(var, texts, k) : k \in 1..(n + 1) }
    IN  UNION { { r \in [1..m -> all] :
                    /\ \A k \in 1..m : r[k] \in ItemChoices(var, texts, k)
                    /\ Cardinality({ k \in 1..m : r[k] # PlainItem(var, texts, k) })
                         <= MaxOddItems }
                : m \in { x \in {n - 1, n, n + 1} : x >= 0 } }
Responses(var, texts) ==
    { Response(TRUE, 0, "none", <<>>),
      Response(FALSE, 500, "dict", <<>>),
      Response(FALSE, 200, IF var = "HF" THEN "dict" ELSE "list", <<>>) }
    \cup { Response(FALSE, 200, IF var = "HF" THEN "list" ELSE "dict", its)
             : its \in ItemLists(var, texts) }

\* a translator that posts its request without looking the language up
SendsRequest_AnyLang(var, texts, lang) ==
    var = "HF" => texts # <<>>

\* whether translate_with_hf / translate_with_vm posts a request at all
SendsRequest(var, texts, lang) ==
    /\ var = "HF" => texts # <<>>
    /\ lang \in DOMAIN lang_map

\* HF lines 102-108: the translation of one item of the response list
HfItem(item) ==
    IF item.field = "translation_text" THEN item.value
    ELSE IF item.field = "generated_text" THEN item.value
    ELSE None

\* translate_with_hf, given the response to its request (which is read only
\* when a request was posted and did not raise)
translate_with_hf(texts, lang, response) ==
    IF texts = <<>> THEN <<>>
    ELSE IF lang \notin DOMAIN lang_map THEN NoneList(Len(texts))
    ELSE IF response.status_code # 200 THEN NoneList(Len(texts))
    ELSE IF response.kind = "list"
         THEN [k \in 1..Len(response.items) |-> HfItem(response.items[k])]
         ELSE NoneList(Len(texts))

\* translate_with_vm.  Its result None is the empty sequence here: the
\* function never returns an empty list (line 322 turns it into None), and
\* its only caller tests the result for truth.
translate_with_vm(text_batch, lang, response) ==
    IF lang \notin DOMAIN lang_map THEN <<>>
    ELSE IF response.raised THEN <<>>
    ELSE IF response.status_code = 200
         THEN IF response.kind # "dict" THEN <<>>
              ELSE [k \in 1..Len(response.items) |-> response.items[k].value]
         ELSE <<>>

\* how a call ended, for the record of calls
CallKind(lang, response) ==
    IF lang \notin DOMAIN lang_map THEN "unsupported"
    ELSE IF response.raised THEN "raised"
    ELSE IF response.status_code # 200 THEN "error"
    ELSE response.kind

(***************************************************************************)
(* RunMetrics.                                                             *)
(***************************************************************************)
\* start_ts is the clock reading at construction, taken as 0
NewRunMetrics ==
    [start_ts |-> 0, total_segments |-> 0, total_tm_hits |-> 0,
     total_nmt_calls |-> 0, nmt_latencies |-> <<>>]

\* nmt_latency=None
NoLatency == <<>>

\* an add_segment that records the latency sample without counting the call
add_segment_Uncounted(m, tm_hit, nmt_latency) ==
    [start_ts        |-> m.start_ts,
     total_segments  |-> m.total_segments + 1,
     total_tm_hits   |-> IF tm_hit THEN m.total_tm_hits + 1 ELSE m.total_tm_hits,
     total_nmt_calls |-> m.total_nmt_calls,
     nmt_latencies   |-> IF nmt_latency # NoLatency
                         THEN Append(m.nmt_latencies, nmt_latency)
                         ELSE m.nmt_latencies]
\* RunMetrics.add_segment, lines 124-130
add_segment(m, tm_hit, nmt_latency) ==
    [start_ts        |-> m.start_ts,
     total_segments  |-> m.total_segments + 1,
     total_tm_hits   |-> IF tm_hit THEN m.total_tm_hits + 1 ELSE m.total_tm_hits,
     total_nmt_calls |-> IF nmt_latency # NoLatency THEN m.total_nmt_calls + 1
                         ELSE m.total_nmt_calls,
     nmt_latencies   |-> IF nmt_latency # NoLatency
                         THEN Append(m.nmt_latencies, nmt_latency)
                         ELSE m.nmt_latencies]

\* the counts of the dict RunMetrics.summary returns (its other entries are
\* derived from the clock)
summary_of(m) ==
    [total_files |-> 1, total_segments |-> m.total_segments,
     total_tm_hits |-> m.total_tm_hits, total_nmt_calls |-> m.total_nmt_calls]
\* a summary that starts a new count once it has reported
after_summary_Reset(m) == NewRunMetrics
\* the RunMetrics object after summary() has run on it: lines 133-144 read
\* the attributes and bind locals only
after_summary(m) ==
    [start_ts        |-> m.start_ts,
     total_segments  |-> m.total_segments,
     total_tm_hits   |-> m.total_tm_hits,
     total_nmt_calls |-> m.total_nmt_calls,
     nmt_latencies   |-> m.nmt_latencies]

\* elapsed times a batch call may be measured to take
Latencies == {6}
\* the latency of the whole batch, not divided
PerItem_Whole(latency, n) == <<latency, 1>>
\* latency / len(batch_texts), kept as an exact fraction
PerItem(latency, n) == <<latency, n>>


(***************************************************************************)
(* The blob containers.                                                    *)
(***************************************************************************)
\* the name of the blob at a position of the listing: names are unique
\* within a container, parts is what blob_name.split(".") yields
BlobName(n, parts) == [pos |-> n, parts |-> parts]
\* before main has listed a blob
NoBlob == BlobName(0, <<>>)
\* an upload that stores nothing
upload_blob_Lost(container, name, data) == container
\* trans_client.upload_blob(name=..., data=..., overwrite=True)
upload_blob(container, name, data) ==
    { b \in container : b.name # name } \cup { [name |-> name, data |-> data] }
\* raw_client.delete_blob(blob_name)
delete_blob(container, name) == container \ { name.pos }

(***************************************************************************)
(* A second process of main on the same table.                             *)
(*                                                                         *)
(* Nothing in main keeps a second invocation from running at the same      *)
(* time.  The second process is followed through one document with one     *)
(* trans-unit: where it stands, what its lookup found, the rows of its     *)
(* open transaction, the exception that ended it.                          *)
(***************************************************************************)
OtherSource == "A"
OtherLang == "fr-FR"
OtherOff == [pc |-> "off", cached |-> None, txn |-> <<>>, error |-> None]

(***************************************************************************)
(* State.                                                                  *)
(***************************************************************************)
VARIABLES
    variant,            \* "HF" or "VM": which translation.py runs
    unique_key,         \* whether table Translations has a key constraint
    tm,                 \* committed rows of table Translations
    txn,                \* rows inserted by the open transaction of conn
    pc,                 \* where main / process_xlf_file stands
    error,              \* the exception that ended the process, if any
    runs,               \* documents main has started
    units_used,         \* trans-units of the documents main has started
    target_lang,        \* main: parts[-2]
    file,               \* the local file xlf_path
    doc,                \* root: the parsed tree, one record per trans-unit
    trans_units,        \* HF: the collected units, as indices into doc
    u,                  \* HF: next index of the cache loop; VM: next trans-unit
    missing_indices,    \* HF
    to_translate_texts, \* HF
    i,                  \* HF: offset of the batch loop
    text_batch,         \* VM
    batch_units,        \* VM: the doc index each text of text_batch came from
    translations,       \* result of the batch call being written back
    j,                  \* index of the write-back loop
    per_item_latency,   \* HF
    translated_count,
    skipped_count,
    metrics,            \* HF: the RunMetrics object of main
    metrics0,           \* record: metrics when process_xlf_file was entered
    calls,              \* record: the batch calls of this document
    writes,             \* record: the target texts set for this document
    inserts,            \* record: the TM inserts executed for this document
    history,            \* record: the documents process_xlf_file completed
    raw,                \* the raw container: the blobs still in it, by position
    blob_name,          \* main: the name of the blob of this iteration
    trans_container,     \* the translated container: the blobs uploaded to it
    other,              \* a second process of main working on the same table
    rm                  \* a RunMetrics object of its own, outside main

vars == << variant, unique_key, tm, txn, pc, error, metrics0, runs, units_used, target_lang, file,
           doc, trans_units, u, missing_indices, to_translate_texts, i,
           text_batch, batch_units, translations, j, per_item_latency,
           translated_count, skipped_count, metrics, calls, writes,
           inserts, history, raw, blob_name, trans_container, other, rm >>

config_vars == << variant, unique_key >>
quiet       == << error, metrics0 >>
main_vars   == << runs, units_used, target_lang, file >>
hf_locals   == << trans_units, missing_indices, to_translate_texts, i, per_item_latency >>
vm_locals   == << text_batch, batch_units >>
count_vars  == << translated_count, skipped_count >>
blob_vars   == << raw, blob_name, trans_container >>
conc_vars   == << other, rm >>

\* what query_translation and the INSERT see: the table and the own transaction
Store == tm \o txn
\* an INSERT waits while another open transaction holds a row with its key
\* (only a table with a key constraint makes it wait)
InsertWaits(held, s, l) == unique_key /\ Matching(held, s, l) # {}

Init ==
    /\ variant \in {"HF", "VM"}
    /\ unique_key \in BOOLEAN
    /\ tm \in InitStores
    /\ txn = <<>>
    /\ pc = "idle"
    /\ error = None
    /\ metrics0 = NewRunMetrics
    /\ runs = 0
    /\ units_used = 0
    /\ target_lang = None
    /\ file = <<>>
    /\ doc = <<>>
    /\ trans_units = <<>>
    /\ u = 1
    /\ missing_indices = <<>>
    /\ to_translate_texts = <<>>
    /\ i = 0
    /\ text_batch = <<>>
    /\ batch_units = <<>>
    /\ translations = <<>>
    /\ j = 0
    /\ per_item_latency = NoLatency
    /\ translated_count = 0
    /\ skipped_count = 0
    /\ metrics = NewRunMetrics
    /\ calls = <<>>
    /\ writes = <<>>
    /\ inserts = <<>>
    /\ history = <<>>
    /\ raw = 1..MaxRuns
    /\ blob_name = NoBlob
    /\ trans_container = {}
    /\ other = OtherOff
    /\ rm = NewRunMetrics

(***************************************************************************)
(* Records kept for the properties.                                        *)
(***************************************************************************)
\* a batch call: the texts sent, the doc index of the segment each came
\* from, whether a request went to the backend, how it ended, its result
Call(texts, units, req, kind, result) ==
    [texts |-> texts, units |-> units, requested |-> req, kind |-> kind,
     result |-> result]
\* a target text set: call 0 is the cache phase
Write(unit, text, call, pos) == [unit |-> unit, text |-> text, call |-> call, pos |-> pos]
Insert(s, t, call, pos) == [SourceText |-> s, TranslatedText |-> t, call |-> call, pos |-> pos]

SetTarget(d, k, t) == [d EXCEPT ![k].target = t]
SetResult(cs, kind, result) ==
    [cs EXCEPT ![Len(cs)].kind = kind, ![Len(cs)].result = result]

\* HF lines 158-168: the units with a non-blank source, in document order
RECURSIVE Collect(_, _)
Collect(d, k) ==
    IF k > Len(d) THEN <<>>
    ELSE IF Strip(d[k].source) = "" THEN Collect(d, k + 1)
         ELSE <<k>> \o Collect(d, k + 1)

(***************************************************************************)
(* main.                                                                   *)
(***************************************************************************)
\* an exception that leaves the connection and its transaction open
Crash_KeepsTxn ==
    /\ pc' = "crashed"
    /\ txn' = txn
\* an uncaught exception ends the process; the connection is dropped without
\* a commit, which rolls the transaction back
Crash ==
    /\ pc' = "crashed"
    /\ txn' = <<>>

\* the exceptions of the model
QueryError == "pyodbc.Error in query_translation"
InsertError == "pyodbc.Error in insert_translation"
KeyViolation == "pyodbc.IntegrityError in insert_translation"
IndexError == "IndexError"
TransportError == "requests.RequestException"
UploadError == "azure error in upload_blob"
DeleteError == "azure error in delete_blob"
\* the exception of a failing INSERT
InsertFailure(s) ==
    IF InsertViolates(unique_key, Store, s, target_lang) THEN KeyViolation
    ELSE InsertError

\* main lines 249-262 (VM 414-427): the next blob is downloaded and
\* process_xlf_file starts on it: parse, and in HF collect the units
StartRun ==
    /\ pc = "idle"
    /\ runs < MaxRuns
    /\ \E name \in BlobNames, d \in Docs :
        /\ Len(name) >= 2
        /\ units_used + Len(d) <= MaxTotalUnits
        /\ units_used' = units_used + Len(d)
        /\ blob_name' = BlobName(runs + 1, name)
        /\ target_lang' = TargetLangOf(name)
        /\ file' = d
        /\ doc' = d
        /\ trans_units' = IF variant = "HF" THEN Collect(d, 1) ELSE <<>>
    /\ runs' = runs + 1
    /\ pc' = IF variant = "VM" THEN "vm_loop"
             ELSE IF trans_units' = <<>> THEN "batch" ELSE "cache"
    /\ u' = 1
    /\ missing_indices' = <<>>
    /\ to_translate_texts' = <<>>
    /\ i' = 0
    /\ text_batch' = <<>>
    /\ batch_units' = <<>>
    /\ translations' = <<>>
    /\ j' = 0
    /\ per_item_latency' = NoLatency
    /\ translated_count' = 0
    /\ skipped_count' = 0
    /\ calls' = <<>>
    /\ writes' = <<>>
    /\ inserts' = <<>>
    /\ metrics0' = metrics
    /\ UNCHANGED << config_vars, conc_vars, raw, trans_container, error, tm, txn, metrics,
                    history >>

\* main lines 255-258: a blob whose name has no "." is skipped
SkipBlob ==
    /\ pc = "idle"
    /\ runs < MaxRuns
    /\ \E name \in BlobNames :
        /\ Len(name) < 2
        /\ blob_name' = BlobName(runs + 1, name)
    /\ runs' = runs + 1
    /\ UNCHANGED << config_vars, conc_vars, raw, trans_container, quiet, tm, txn, pc, units_used, target_lang, file, doc,
                    hf_locals, vm_locals, u, translations, j, count_vars, metrics,
                    calls, writes, inserts, history >>

\* lines 212-213 (VM 390-391): conn.commit() and tree.write
Commit ==
    /\ \/ variant = "HF" /\ pc = "batch" /\ i >= Len(to_translate_texts)
       \/ variant = "VM" /\ pc = "vm_loop" /\ u > Len(doc) /\ text_batch = <<>>
    /\ tm' = tm \o txn
    /\ txn' = <<>>
    /\ file' = doc
    /\ pc' = "returned"
    /\ UNCHANGED << config_vars, conc_vars, blob_vars, quiet, runs, units_used, target_lang, doc, hf_locals,
                    vm_locals, u, translations, j, count_vars, metrics, calls,
                    writes, inserts, history >>

\* main line 265 (VM 429): trans_client.upload_blob(name=blob_name,
\* data=open(local_path, "rb"), overwrite=True); the call may raise, and
\* nothing in main catches it
Upload ==
    /\ pc = "returned"
    /\ \/ /\ trans_container' = upload_blob(trans_container, blob_name, file)
          /\ pc' = "uploaded"
          /\ UNCHANGED << error, txn >>
       \/ /\ Crash
          /\ error' = UploadError
          /\ UNCHANGED trans_container
    /\ UNCHANGED << config_vars, conc_vars, raw, blob_name, metrics0, tm, main_vars, doc,
                    hf_locals, vm_locals, u, translations, j, count_vars, metrics,
                    calls, writes, inserts, history >>

\* main lines 266-285 (VM 430-433): delete the raw blob (the call may raise),
\* remove the local file, and in HF log metrics.summary() (VM has no
\* RunMetrics: metrics stays as created)
FinishDoc ==
    /\ pc = "uploaded"
    /\ \/ /\ raw' = delete_blob(raw, blob_name)
          /\ pc' = "idle"
          /\ history' = Append(history,
                           [doc_in |-> [k \in 1..Len(doc) |-> doc[k].source],
                            target_lang |-> target_lang, out |-> file, calls |-> calls,
                            writes |-> writes, inserts |-> inserts,
                            summary |-> summary_of(metrics)])
          /\ metrics' = IF variant = "HF" THEN after_summary(metrics) ELSE metrics
          /\ UNCHANGED << error, txn >>
       \/ /\ Crash
          /\ error' = DeleteError
          /\ UNCHANGED << raw, history, metrics >>
    /\ UNCHANGED << config_vars, conc_vars, blob_name, trans_container, metrics0, tm, runs,
                    units_used, target_lang, file, doc, hf_locals, vm_locals, u,
                    translations, j, count_vars, calls, writes, inserts >>


(***************************************************************************)
(* process_xlf_file, HF variant.                                           *)
(***************************************************************************)
batch_texts == Slice(to_translate_texts, i, BATCH_SIZE)
batch_indices == Slice(missing_indices, i, BATCH_SIZE)

\* lines 174-182: one pass of the cache loop.  missing_indices holds the
\* 0-based enumerate index.
HfCacheLookup ==
    /\ variant = "HF"
    /\ pc = "cache"
    /\ u <= Len(trans_units)
    /\ LET source_text == doc[trans_units[u]].source
       IN  \/ \E cached \in query_translation(Store, source_text, target_lang) :
                /\ IF Truthy(cached)
                   THEN /\ doc' = SetTarget(doc, trans_units[u], cached)
                        /\ skipped_count' = skipped_count + 1
                        /\ metrics' = add_segment(metrics, TRUE, NoLatency)
                        /\ writes' = Append(writes, Write(trans_units[u], cached, 0, u))
                        /\ UNCHANGED << missing_indices, to_translate_texts >>
                   ELSE /\ missing_indices' = Append(missing_indices, u - 1)
                        /\ to_translate_texts' = Append(to_translate_texts, source_text)
                        /\ UNCHANGED << doc, skipped_count, metrics, writes >>
                /\ u' = u + 1
                /\ pc' = IF u' > Len(trans_units) THEN "batch" ELSE "cache"
                /\ txn' = txn
           \/ \* cursor.execute raises
              /\ Crash
              /\ UNCHANGED << doc, skipped_count, metrics, writes, missing_indices,
                              to_translate_texts, u >>
    /\ error' = IF pc' = "crashed" THEN QueryError ELSE error
    /\ UNCHANGED << config_vars, conc_vars, blob_vars, metrics0, tm, main_vars, trans_units, i, per_item_latency,
                    vm_locals, translations, j, translated_count, calls, inserts,
                    history >>

\* the end of one batch's write-back loop: the for loop of line 186 goes on
HfNextBatch(len) ==
    IF j' >= len THEN /\ i' = i + BATCH_SIZE
                      /\ pc' = "batch"
    ELSE /\ i' = i
         /\ pc' = "writeback"

\* lines 186-193, up to the request of translate_with_hf (line 80); for a
\* language that is not in lang_map the call returns without a request
HfBatchSend ==
    /\ variant = "HF"
    /\ pc = "batch"
    /\ i < Len(to_translate_texts)
    /\ LET units == [k \in 1..Len(batch_indices) |-> trans_units[batch_indices[k] + 1]]
       IN  IF SendsRequest("HF", batch_texts, target_lang)
           THEN /\ pc' = "mt_wait"
                /\ calls' = Append(calls, Call(batch_texts, units, TRUE, "pending", <<>>))
                /\ UNCHANGED << translations, j, i, per_item_latency >>
           ELSE /\ translations' = translate_with_hf(batch_texts, target_lang,
                                                     Response(FALSE, 0, "none", <<>>))
                /\ calls' = Append(calls, Call(batch_texts, units, FALSE,
                                               "unsupported", translations'))
                /\ j' = 0
                /\ \E latency \in Latencies :
                     per_item_latency' = PerItem(latency, Len(batch_texts))
                /\ HfNextBatch(Len(translations'))
    /\ UNCHANGED << config_vars, conc_vars, blob_vars, quiet, tm, txn, main_vars, doc, trans_units,
                    missing_indices, to_translate_texts, vm_locals, u, count_vars,
                    metrics, writes, inserts, history >>

\* lines 80-112 and 195-197: the response arrives, translate_with_hf returns
HfBatchRecv ==
    /\ variant = "HF"
    /\ pc = "mt_wait"
    /\ \E response \in Responses("HF", batch_texts) :
         IF response.raised
         THEN \* requests.post raises: nothing catches it
              /\ Crash
              /\ calls' = SetResult(calls, "raised", <<>>)
              /\ UNCHANGED << translations, j, i, per_item_latency >>
         ELSE /\ translations' = translate_with_hf(batch_texts, target_lang, response)
              /\ calls' = SetResult(calls, CallKind(target_lang, response),
                                    translations')
              /\ j' = 0
              /\ \E latency \in Latencies :
                   per_item_latency' = PerItem(latency, Len(batch_texts))
              /\ HfNextBatch(Len(translations'))
              /\ txn' = txn
    /\ error' = IF pc' = "crashed" THEN TransportError ELSE error
    /\ UNCHANGED << config_vars, conc_vars, blob_vars, metrics0, tm, main_vars, doc, trans_units, missing_indices,
                    to_translate_texts, vm_locals, u, count_vars, metrics, writes,
                    inserts, history >>

\* lines 199-210: one pass of the write-back loop
HfWriteBack ==
    /\ variant = "HF"
    /\ pc = "writeback"
    /\ j < Len(translations)
    /\ LET translated_text == translations[j + 1]
       IN  IF Truthy(translated_text)
           THEN IF j >= Len(batch_indices)
                THEN \* batch_indices[j]: IndexError
                     /\ Crash
                     /\ UNCHANGED << doc, i, j, count_vars, metrics, writes, inserts >>
                ELSE LET original_idx == batch_indices[j + 1]
                         unit == trans_units[original_idx + 1]
                         source_text == doc[unit].source
                     IN  /\ doc' = SetTarget(doc, unit, translated_text)
                         /\ writes' = Append(writes,
                                         Write(unit, translated_text, Len(calls), j + 1))
                         /\ \/ /\ ~InsertViolates(unique_key, Store, source_text, target_lang)
                               /\ ~InsertWaits(other.txn, source_text, target_lang)
                               /\ txn' = insert_translation(txn, source_text, target_lang,
                                                            translated_text)
                               /\ inserts' = Append(inserts,
                                     Insert(source_text, translated_text, Len(calls), j + 1))
                               /\ metrics' = add_segment(metrics, FALSE, per_item_latency)
                               /\ translated_count' = translated_count + 1
                               /\ j' = j + 1
                               /\ HfNextBatch(Len(translations))
                            \/ \* cursor.execute raises: key violation or any
                               \* other database error
                               /\ Crash
                               /\ UNCHANGED << i, j, translated_count, metrics, inserts >>
                         /\ UNCHANGED skipped_count
           ELSE /\ skipped_count' = skipped_count + 1
                /\ j' = j + 1
                /\ HfNextBatch(Len(translations))
                /\ UNCHANGED << doc, txn, translated_count, metrics, writes, inserts >>
    /\ error' = IF pc' = "crashed" THEN IF j >= Len(batch_indices) THEN IndexError
                                      ELSE InsertFailure(doc[trans_units[batch_indices[j + 1] + 1]].source) ELSE error
    /\ UNCHANGED << config_vars, conc_vars, blob_vars, metrics0, tm, main_vars, trans_units, missing_indices,
                    to_translate_texts, per_item_latency, vm_locals, u, translations,
                    calls, history >>


(***************************************************************************)
(* process_xlf_file, VM variant.                                           *)
(***************************************************************************)
\* lines 365-367 and 379-380, up to the request of translate_with_vm (line
\* 318); for a language that is not in lang_map the call returns None
\* without a request and lines 374-376 (387-388) follow at once
VmSend(batch, units) ==
    IF SendsRequest("VM", batch, target_lang)
    THEN /\ pc' = "mt_wait"
         /\ calls' = Append(calls, Call(batch, units, TRUE, "pending", <<>>))
         /\ text_batch' = batch
         /\ batch_units' = units
         /\ UNCHANGED skipped_count
    ELSE /\ pc' = "vm_loop"
         /\ calls' = Append(calls, Call(batch, units, FALSE, "unsupported",
                              translate_with_vm(batch, target_lang,
                                                Response(FALSE, 0, "none", <<>>))))
         /\ skipped_count' = skipped_count + Len(batch)
         /\ text_batch' = <<>>
         /\ batch_units' = <<>>

\* lines 345-376: one pass of the loop over the trans-units
VmUnit ==
    /\ variant = "VM"
    /\ pc = "vm_loop"
    /\ u <= Len(doc)
    /\ LET source_text == doc[u].source
       IN  IF Strip(source_text) = ""
           THEN /\ u' = u + 1
                /\ UNCHANGED << pc, txn, doc, text_batch, batch_units, skipped_count,
                                calls, writes >>
           ELSE \/ \E cached \in query_translation(Store, source_text, target_lang) :
                     /\ u' = u + 1
                     /\ txn' = txn
                     /\ IF Truthy(cached)
                        THEN /\ doc' = SetTarget(doc, u, cached)
                             /\ skipped_count' = skipped_count + 1
                             /\ writes' = Append(writes, Write(u, cached, 0, u))
                             /\ UNCHANGED << pc, text_batch, batch_units, calls >>
                        ELSE /\ IF Len(text_batch) + 1 = VM_BATCH_SIZE
                                THEN VmSend(Append(text_batch, source_text),
                                            Append(batch_units, u))
                                ELSE /\ text_batch' = Append(text_batch, source_text)
                                     /\ batch_units' = Append(batch_units, u)
                                     /\ UNCHANGED << pc, skipped_count, calls >>
                             /\ UNCHANGED << doc, writes >>
                \/ \* cursor.execute raises; query_translation re-raises
                   /\ Crash
                   /\ UNCHANGED << u, doc, text_batch, batch_units, skipped_count,
                                   calls, writes >>
    /\ error' = IF pc' = "crashed" THEN QueryError ELSE error
    /\ UNCHANGED << config_vars, conc_vars, blob_vars, metrics0, tm, main_vars, hf_locals, translations, j,
                    translated_count, metrics, inserts, history >>

\* lines 378-380: the rest of the batch is sent after the loop
VmFlush ==
    /\ variant = "VM"
    /\ pc = "vm_loop"
    /\ u > Len(doc)
    /\ text_batch # <<>>
    /\ VmSend(text_batch, batch_units)
    /\ UNCHANGED << config_vars, conc_vars, blob_vars, quiet, tm, txn, main_vars, doc, hf_locals, u, translations,
                    j, translated_count, metrics, writes, inserts, history >>

\* lines 318-333 and 368, 374-376 (381, 387-388): the response arrives,
\* translate_with_vm returns; a falsy result skips the batch
VmBatchRecv ==
    /\ variant = "VM"
    /\ pc = "mt_wait"
    /\ \E response \in Responses("VM", text_batch) :
         LET translated_batch == translate_with_vm(text_batch, target_lang, response)
         IN  /\ calls' = SetResult(calls, CallKind(target_lang, response),
                                   translated_batch)
             /\ IF translated_batch # <<>>
                THEN /\ translations' = translated_batch
                     /\ j' = 0
                     /\ pc' = "writeback"
                     /\ UNCHANGED << text_batch, batch_units, skipped_count >>
                ELSE /\ skipped_count' = skipped_count + Len(text_batch)
                     /\ text_batch' = <<>>
                     /\ batch_units' = <<>>
                     /\ pc' = "vm_loop"
                     /\ UNCHANGED << translations, j >>
    /\ UNCHANGED << config_vars, conc_vars, blob_vars, quiet, tm, txn, main_vars, doc, hf_locals, u,
                    translated_count, metrics, writes, inserts, history >>

\* lines 369-373 and 376 (382-386): one pass of the write-back loop; the
\* target is the one of root.findall(".//trans-unit")[i]
VmWriteBack ==
    /\ variant = "VM"
    /\ pc = "writeback"
    /\ j < Len(translations)
    /\ LET translated == translations[j + 1]
       IN  IF j >= Len(doc)
           THEN \* root.findall(...)[i]: IndexError
                /\ Crash
                /\ UNCHANGED << doc, j, text_batch, batch_units, translated_count,
                                writes, inserts >>
           ELSE /\ doc' = SetTarget(doc, j + 1, translated)
                /\ writes' = Append(writes, Write(j + 1, translated, Len(calls), j + 1))
                /\ IF j >= Len(text_batch)
                   THEN \* text_batch[i]: IndexError
                        /\ Crash
                        /\ UNCHANGED << j, text_batch, batch_units, translated_count,
                                        inserts >>
                   ELSE \/ /\ ~InsertViolates(unique_key, Store, text_batch[j + 1],
                                              target_lang)
                           /\ ~InsertWaits(other.txn, text_batch[j + 1], target_lang)
                           /\ txn' = insert_translation(txn, text_batch[j + 1],
                                                        target_lang, translated)
                           /\ inserts' = Append(inserts,
                                 Insert(text_batch[j + 1], translated, Len(calls), j + 1))
                           /\ j' = j + 1
                           /\ IF j' >= Len(translations)
                              THEN /\ translated_count' = translated_count + Len(text_batch)
                                   /\ text_batch' = <<>>
                                   /\ batch_units' = <<>>
                                   /\ pc' = "vm_loop"
                              ELSE UNCHANGED << translated_count, text_batch,
                                                batch_units, pc >>
                        \/ \* cursor.execute raises; insert_translation re-raises
                           /\ Crash
                           /\ UNCHANGED << j, text_batch, batch_units,
                                           translated_count, inserts >>
    /\ error' = IF pc' = "crashed" THEN IF j >= Len(doc) \/ j >= Len(text_batch) THEN IndexError
                                      ELSE InsertFailure(text_batch[j + 1]) ELSE error
    /\ UNCHANGED << config_vars, conc_vars, blob_vars, metrics0, tm, main_vars, hf_locals, u, translations,
                    skipped_count, metrics, calls, history >>

(***************************************************************************)
(* The program.                                                            *)
(***************************************************************************)
Next ==
    \/ StartRun
    \/ SkipBlob
    \/ HfCacheLookup
    \/ HfBatchSend
    \/ HfBatchRecv
    \/ HfWriteBack
    \/ VmUnit
    \/ VmFlush
    \/ VmBatchRecv
    \/ VmWriteBack
    \/ Commit
    \/ Upload
    \/ FinishDoc

Spec == Init /\ [][Next]_vars

(***************************************************************************)
(* Two processes on one table.                                             *)
(*                                                                         *)
(* The second process runs the same translation.py on a document of one    *)
(* trans-unit, OtherSource, for OtherLang, while the first is inside its   *)
(* first document.  Its steps are the ones of process_xlf_file that touch  *)
(* the table: the lookup, the INSERT after the batch call, the commit.     *)
(* Each process reads the committed rows and its own open transaction.     *)
(***************************************************************************)
\* everything of the first process but the table
own_vars == << variant, unique_key, txn, pc, error, metrics0, runs, units_used,
               target_lang, file, doc, trans_units, u, missing_indices,
               to_translate_texts, i, text_batch, batch_units, translations, j,
               per_item_latency, translated_count, skipped_count, metrics, calls,
               writes, inserts, history, raw, blob_name, trans_container >>

\* lines 174-182 (VM 345-367): the second process starts on its document and
\* looks its segment up
OtherLookup ==
    /\ other.pc = "off"
    /\ runs = 1
    /\ pc \in {"cache", "batch", "mt_wait", "writeback", "vm_loop"}
    /\ \E cached \in query_translation(tm, OtherSource, OtherLang) :
        other' = [other EXCEPT !.pc = IF Truthy(cached) THEN "commit" ELSE "mt_wait",
                               !.cached = cached]
    /\ UNCHANGED << own_vars, tm, rm >>

\* lines 193-210 (VM 369-376): the batch call of the second process returns,
\* with a translation or without one, and a translation is inserted
OtherWriteBack ==
    /\ other.pc = "mt_wait"
    /\ \E translated_text \in {MT(OtherSource), None} :
        IF ~Truthy(translated_text)
        THEN other' = [other EXCEPT !.pc = "commit"]
        ELSE /\ ~InsertWaits(txn, OtherSource, OtherLang)
             /\ IF InsertViolates(unique_key, tm \o other.txn, OtherSource, OtherLang)
                THEN other' = [other EXCEPT !.pc = "crashed", !.txn = <<>>,
                                            !.error = KeyViolation]
                ELSE other' = [other EXCEPT !.pc = "commit",
                                 !.txn = insert_translation(other.txn, OtherSource,
                                                            OtherLang, translated_text)]
    /\ UNCHANGED << own_vars, tm, rm >>

\* line 212 (VM 390): conn.commit() of the second process
OtherCommit ==
    /\ other.pc = "commit"
    /\ tm' = tm \o other.txn
    /\ other' = [other EXCEPT !.pc = "done", !.txn = <<>>]
    /\ UNCHANGED << own_vars, rm >>

ConcInit == Init /\ tm = <<>>

ConcNext ==
    \/ StartRun
    \/ SkipBlob
    \/ HfCacheLookup
    \/ HfBatchSend
    \/ HfBatchRecv
    \/ HfWriteBack
    \/ VmUnit
    \/ VmFlush
    \/ VmBatchRecv
    \/ VmWriteBack
    \/ Commit
    \/ Upload
    \/ FinishDoc
    \/ OtherLookup
    \/ OtherWriteBack
    \/ OtherCommit

ConcSpec == ConcInit /\ [][ConcNext]_vars

(***************************************************************************)
(* RunMetrics under any caller.                                            *)
(*                                                                         *)
(* Next to main, whose process_xlf_file calls add_segment in two ways      *)
(* only, a RunMetrics object rm receives add_segment calls with any        *)
(* arguments: tm_hit either way, nmt_latency None or a number.             *)
(***************************************************************************)
\* nmt_latency values a caller may pass
AnyLatency == { NoLatency } \cup { PerItem(latency, 1) : latency \in Latencies }

\* lines 124-130 on an object of its own
AnyAddSegment ==
    /\ rm.total_segments < MaxAddSegment
    /\ \E tm_hit \in BOOLEAN, nmt_latency \in AnyLatency :
        rm' = add_segment(rm, tm_hit, nmt_latency)
    /\ UNCHANGED << own_vars, tm, other >>

\* the HF variant (the one with RunMetrics) on a table that holds a
\* translation, an empty entry and no entry for the keys of the documents
MetricsInit == Init /\ variant = "HF" /\ ~unique_key /\ tm = InitRows

MetricsNext ==
    \/ StartRun
    \/ SkipBlob
    \/ HfCacheLookup
    \/ HfBatchSend
    \/ HfBatchRecv
    \/ HfWriteBack
    \/ Commit
    \/ Upload
    \/ FinishDoc
    \/ AnyAddSegment

MetricsSpec == MetricsInit /\ [][MetricsNext]_vars

\* the steps of process_xlf_file and of main after it: the code runs them
\* one after another without waiting for anything but the calls it makes,
\* and the calls are taken to return
Step ==
    \/ HfCacheLookup
    \/ HfBatchSend
    \/ HfBatchRecv
    \/ HfWriteBack
    \/ VmUnit
    \/ VmFlush
    \/ VmBatchRecv
    \/ VmWriteBack
    \/ Commit
    \/ Upload
    \/ FinishDoc

FairSpec == Spec /\ WF_vars(Step)

(***************************************************************************)
(* Helpers of the properties.                                              *)
(***************************************************************************)
Range(f) == { f[k] : k \in DOMAIN f }
\* a language main can be given that lang_map does not hold
Unmapped(l) == l # None /\ l \notin DOMAIN lang_map
\* process_xlf_file has returned for the current document
Returned == pc = "returned"
\* the batch calls that posted a request
Requested(cs) == { k \in 1..Len(cs) : cs[k].requested }
\* the positions of a call's result that hold a translation
Translated(c) == { p \in 1..Len(c.result) : Truthy(c.result[p]) }

(***************************************************************************)
(* C1.  Order preservation: every translation at position p of a batch     *)
(* call's result is written to the segment whose source text was sent at   *)
(* position p of that call, and to no other segment.                       *)
(***************************************************************************)
C1_WritesFollowPositions ==
    /\ \A k \in 1..Len(writes) :
         writes[k].call > 0 /\ Truthy(writes[k].text) =>
           /\ writes[k].pos <= Len(calls[writes[k].call].units)
           /\ writes[k].unit = calls[writes[k].call].units[writes[k].pos]
    /\ Returned =>
         \A c \in 1..Len(calls) : \A p \in Translated(calls[c]) :
           /\ p <= Len(calls[c].units)
           /\ Write(calls[c].units[p], calls[c].result[p], c, p) \in Range(writes)

(***************************************************************************)
(* C2.  The batch translator returns, for every backend outcome, a list as *)
(* long as its input, and the write-back never indexes outside the batch   *)
(* it sent.                                                                *)
(***************************************************************************)
C2_ResultAsLongAsInput ==
    /\ \A c \in 1..Len(calls) :
         calls[c].kind \notin {"pending", "raised"} =>
           Len(calls[c].result) = Len(calls[c].texts)
    /\ error # IndexError

(***************************************************************************)
(* C3.  Cache idempotence: when a first run of a document for a mapped     *)
(* language translated every segment and committed, a second run of the    *)
(* same document for the same language posts no MT request, executes no TM *)
(* insert and leaves every target as the first run did.                    *)
(***************************************************************************)
\* every batch call of the run came back with a translation for each text
AllTranslated(h) ==
    \A c \in 1..Len(h.calls) :
      /\ h.calls[c].requested
      /\ Len(h.calls[c].result) = Len(h.calls[c].texts)
      /\ Translated(h.calls[c]) = 1..Len(h.calls[c].texts)

C3_SecondRunAllFromCache ==
    ( /\ Len(history) = 2
      /\ history[1].doc_in = history[2].doc_in
      /\ history[1].target_lang = history[2].target_lang
      /\ history[1].target_lang \in DOMAIN lang_map
      /\ AllTranslated(history[1]) )
    => /\ Requested(history[2].calls) = {}
       /\ history[2].inserts = <<>>
       /\ history[2].out = history[1].out

(***************************************************************************)
(* C4.  Metrics accounting: after a run over M non-blank segments with H   *)
(* cache hits and T MT-translated segments, the summary reports            *)
(* total_segments = M, total_tm_hits = H and total_nmt_calls = T, also     *)
(* when some segments were skipped.                                        *)
(***************************************************************************)
Hits(ws) == { k \in 1..Len(ws) : ws[k].call = 0 }
MtWrites(ws) == { k \in 1..Len(ws) : ws[k].call > 0 }

C4_SummaryCountsAllSegments ==
    (variant = "HF" /\ Len(history) >= 1) =>
      LET h == history[1]
      IN  /\ h.summary.total_segments =
               Cardinality({ k \in 1..Len(h.doc_in) : Strip(h.doc_in[k]) # "" })
          /\ h.summary.total_tm_hits = Cardinality(Hits(h.writes))
          /\ h.summary.total_nmt_calls = Cardinality(MtWrites(h.writes))

(***************************************************************************)
(* C5.  TM-store key uniqueness: the store never holds two rows with the   *)
(* same (source text, target language), and a write to an existing key     *)
(* never aborts the run.                                                   *)
(***************************************************************************)
C5_OneRowPerKey ==
    /\ \A a, b \in 1..Len(Store) :
         (Store[a].SourceText = Store[b].SourceText
            /\ Store[a].TargetLang = Store[b].TargetLang) => a = b
    /\ error # KeyViolation

(***************************************************************************)
(* C6.  Atomic batch failure: when a batch call came back with a backend   *)
(* error, then after the run every segment of that batch has its original  *)
(* target text and no TM insert was executed for the batch.                *)
(***************************************************************************)
C6_FailedBatchUntouched ==
    Returned =>
      \A c \in 1..Len(calls) :
        calls[c].kind = "error" =>
          /\ \A p \in 1..Len(calls[c].units) :
               file[calls[c].units[p]].target = ""
          /\ \A k \in 1..Len(inserts) : inserts[k].call # c

(***************************************************************************)
(* C7.  A failing TM insert is non-fatal: the run goes on, it is never     *)
(* ended by the insert's exception.                                        *)
(***************************************************************************)
C7_InsertFailureDoesNotAbort ==
    error \notin {InsertError, KeyViolation}

(***************************************************************************)
(* C8.  No short-circuit on batch failure: a batch that fails (backend or  *)
(* transport error, unsupported language, malformed or wrong-length        *)
(* response) never ends the run: the later batches, the commit and the     *)
(* document write still follow.                                            *)
(***************************************************************************)
C8_BatchFailureDoesNotAbort ==
    error \notin {IndexError, TransportError}

(***************************************************************************)
(* C9, as claimed.  For a target language that is not in lang_map: no MT   *)
(* request, no TM insert, total_nmt_calls unchanged and every segment left *)
(* untranslated, whatever the TM store holds.                              *)
(***************************************************************************)
C9_UnmappedLeavesAllUntranslated ==
    (Returned /\ Unmapped(target_lang)) =>
      /\ Requested(calls) = {}
      /\ inserts = <<>>
      /\ metrics.total_nmt_calls = metrics0.total_nmt_calls
      /\ \A k \in 1..Len(file) : file[k].target = ""

(***************************************************************************)
(* C9, amended.  For a target language that is not in lang_map, at every   *)
(* point of the run: no MT request, no TM insert, total_nmt_calls          *)
(* unchanged, and a target is set only from a TM row of the segment's own  *)
(* (source text, target language); every other segment stays untranslated, *)
(* and a segment with a non-empty TM row has the cached text on return.    *)
(***************************************************************************)
C9_UnmappedOnlyCacheHits ==
    Unmapped(target_lang) =>
      /\ Requested(calls) = {}
      /\ inserts = <<>>
      /\ metrics.total_nmt_calls = metrics0.total_nmt_calls
      /\ \A k \in 1..Len(doc) :
           \/ doc[k].target = ""
           \/ /\ Strip(doc[k].source) # ""
              /\ doc[k].target \in
                   query_translation(Store, doc[k].source, target_lang) \ {None}
      /\ Returned =>
           \A k \in 1..Len(file) :
             LET rows == query_translation(Store, file[k].source, target_lang)
             IN  (Strip(file[k].source) # "" /\ \A t \in rows : Truthy(t))
                   => file[k].target \in rows

\* a run for an unmapped language has returned after a cache hit for one
\* segment and a batch call for another
C9_Witness ==
    /\ Returned
    /\ Unmapped(target_lang)
    /\ \E k \in 1..Len(file) : file[k].target # ""
    /\ \E c \in 1..Len(calls) : calls[c].kind = "unsupported"

(***************************************************************************)
(* C10.  A malformed response (a list with an item that lacks a            *)
(* translation field, or a list of the wrong length) is a whole-batch      *)
(* failure: no segment of the batch is written, no TM insert is executed   *)
(* for it.                                                                 *)
(***************************************************************************)
\* the response of call c was a body of the expected kind with a wrong
\* number of items or an item without a translation
Malformed(c) ==
    /\ c.kind = (IF variant = "HF" THEN "list" ELSE "dict")
    /\ \/ Len(c.result) # Len(c.texts)
       \/ \E p \in 1..Len(c.result) : c.result[p] = None

C10_MalformedIsWholeBatchFailure ==
    \A c \in 1..Len(calls) :
      Malformed(calls[c]) =>
        /\ \A k \in 1..Len(writes) : writes[k].call # c
        /\ \A k \in 1..Len(inserts) : inserts[k].call # c

(***************************************************************************)
(* C11.  Batch partition: the batch calls carry consecutive chunks of the  *)
(* pending (cache-miss) segments in document order: every call has between *)
(* 1 and B texts, every call but the last exactly B, no segment is sent    *)
(* twice or out of order, and when the run returns the P pending segments  *)
(* went out in ceil(P / B) calls, none dropped.                            *)
(***************************************************************************)
\* the batch size of the running variant
BatchSizeOf == IF variant = "HF" THEN BATCH_SIZE ELSE VM_BATCH_SIZE
\* the doc indices of the segments sent by a sequence of calls, in call order
RECURSIVE SentUnits(_)
SentUnits(cs) == IF cs = <<>> THEN <<>> ELSE Head(cs).units \o SentUnits(Tail(cs))
\* the segments with a non-blank source that the cache phase did not serve
PendingUnits ==
    { k \in 1..Len(doc) : Strip(doc[k].source) # "" }
      \ { writes[k].unit : k \in { x \in 1..Len(writes) : writes[x].call = 0 } }
Ceil(p, b) == (p + b - 1) \div b

C11_BatchPartition ==
    /\ \A c \in 1..Len(calls) :
         /\ Len(calls[c].texts) \in 1..BatchSizeOf
         /\ c < Len(calls) => Len(calls[c].texts) = BatchSizeOf
         /\ Len(calls[c].units) = Len(calls[c].texts)
         /\ \A p \in 1..Len(calls[c].texts) :
              calls[c].texts[p] = doc[calls[c].units[p]].source
    /\ LET sent == SentUnits(calls)
       IN  /\ \A a, b \in 1..Len(sent) : a < b => sent[a] < sent[b]
           /\ Range(sent) \subseteq PendingUnits
           /\ Returned =>
                /\ Range(sent) = PendingUnits
                /\ Len(calls) = Ceil(Cardinality(PendingUnits), BatchSizeOf)

\* a run has returned whose pending list went out in a full batch and a
\* last, shorter one
C11_Witness ==
    /\ Returned
    /\ Len(calls) = 2
    /\ Len(calls[1].texts) = BatchSizeOf
    /\ Len(calls[2].texts) < BatchSizeOf

(***************************************************************************)
(* C12.  Per-document metrics: the summary logged after a document counts  *)
(* the cache hits and the MT-translated segments of that document only,    *)
(* whatever documents the process handled before it.                       *)
(***************************************************************************)
C12_SummaryOfThisDocumentOnly ==
    variant = "HF" =>
      \A n \in 1..Len(history) :
        LET h == history[n]
        IN  /\ h.summary.total_tm_hits = Cardinality(Hits(h.writes))
            /\ h.summary.total_nmt_calls = Cardinality(MtWrites(h.writes))
            /\ h.summary.total_segments =
                 Cardinality(Hits(h.writes)) + Cardinality(MtWrites(h.writes))

(***************************************************************************)
(* C13.  Empty-segment exclusion: a trans-unit whose source text is blank  *)
(* is in no batch payload, never has its target written and causes no TM   *)
(* insert.                                                                 *)
(***************************************************************************)
C13_BlankSegmentUntouched ==
    /\ \A k \in 1..Len(doc) :
         Strip(doc[k].source) = "" =>
           /\ doc[k].target = ""
           /\ \A w \in 1..Len(writes) : writes[w].unit # k
           /\ \A c \in 1..Len(calls) : k \notin Range(calls[c].units)
    /\ \A c \in 1..Len(calls) : \A p \in 1..Len(calls[c].texts) :
         Strip(calls[c].texts[p]) # ""
    /\ \A n \in 1..Len(inserts) : Strip(inserts[n].SourceText) # ""

(***************************************************************************)
(* C14.  Single mutation of a target: within one run every segment's       *)
(* target is written at most once, and only with a TM row of the segment's *)
(* own (source text, target language) or with the MT result at the         *)
(* position the segment was sent at; a target set from the cache is never  *)
(* overwritten by a write-back.                                            *)
(***************************************************************************)
C14_TargetWrittenOnce ==
    /\ \A a, b \in 1..Len(writes) : writes[a].unit = writes[b].unit => a = b
    /\ \A w \in 1..Len(writes) :
         IF writes[w].call = 0
         THEN writes[w].text \in
                query_translation(Store, doc[writes[w].unit].source, target_lang)
         ELSE LET c == calls[writes[w].call]
              IN  /\ writes[w].pos <= Len(c.units)
                  /\ c.units[writes[w].pos] = writes[w].unit

(***************************************************************************)
(* C15.  Cache phase.                                                      *)
(***************************************************************************)
\* process_xlf_file is running (not yet committed, not aborted)
InRun == pc \in {"cache", "batch", "mt_wait", "writeback", "vm_loop"}
\* a text that is a translation: neither missing nor empty
NonEmptyText(t) == t \notin {None, ""}
\* the doc indices of the segments the cache phase has looked up so far
LookedUp ==
    IF variant = "HF" THEN { trans_units[x] : x \in 1..(u - 1) }
    ELSE { k \in 1..(u - 1) : Strip(doc[k].source) # "" }
\* the doc indices of the cache hits, in the order they were served
HitSeq == SelectSeq(writes, LAMBDA w : w.call = 0)
\* the doc indices of the pending list, in the order they were put on it
PendingSeq ==
    IF variant = "HF"
    THEN [x \in 1..Len(missing_indices) |-> trans_units[missing_indices[x] + 1]]
    ELSE SentUnits(calls) \o (IF pc = "vm_loop" THEN batch_units ELSE <<>>)
Increasing(q) == \A a, b \in 1..Len(q) : a < b => q[a] < q[b]
\* the texts the rows of a store hold under the key of segment k
RowsOf(store, k) ==
    { store[n].TranslatedText : n \in Matching(store, doc[k].source, target_lang) }

NoSegmentSkipped ==
    /\ \A k \in 1..Len(doc) : Strip(doc[k].source) # ""
    /\ HitSeq = <<>>

C16_VmWritesOwnSegmentWhenNoneSkipped ==
    (variant = "VM" /\ NoSegmentSkipped) =>
      \A w \in 1..Len(writes) :
        \* an item beyond the batch was translated from no segment
        writes[w].pos <= Len(calls[writes[w].call].units) =>
          calls[writes[w].call].units[writes[w].pos] = writes[w].unit

(***************************************************************************)
(* C17.  No retry: within one run a pending segment is sent to the MT      *)
(* backend at most once, in one batch call at one position; the segments   *)
(* of a failed batch are in no later call, and every call stands for one   *)
(* request at most (one exactly for a language of lang_map).               *)
(***************************************************************************)
\* a batch call that came back without any translation
FailedCall(c) == c.kind # "pending" /\ Translated(c) = {}

C17_NoRetry ==
    /\ \A c1, c2 \in 1..Len(calls) :
         \A p1 \in 1..Len(calls[c1].units), p2 \in 1..Len(calls[c2].units) :
           calls[c1].units[p1] = calls[c2].units[p2] => (c1 = c2 /\ p1 = p2)
    /\ \A c1, c2 \in 1..Len(calls) :
         (c1 < c2 /\ FailedCall(calls[c1])) =>
           Range(calls[c1].units) \cap Range(calls[c2].units) = {}
    /\ target_lang \in DOMAIN lang_map => Requested(calls) = 1..Len(calls)
    /\ Cardinality({ c \in 1..Len(calls) : calls[c].kind = "pending" })
         = (IF pc = "mt_wait" THEN 1 ELSE 0)

\* a run has returned in which the first of two batch calls failed
C17_Witness ==
    /\ Returned
    /\ Len(calls) = 2
    /\ FailedCall(calls[1])
    /\ calls[1].requested
    /\ calls[2].requested

(***************************************************************************)
(* C18.  Sequential progress: at most one MT batch call is in flight and a *)
(* batch is sent only when the write-back of the batch before it has       *)
(* finished; while a batch call has not returned nothing else happens (no  *)
(* later call, insert, commit or document write); and when every external  *)
(* call returns, a started run reaches the commit and the document write:  *)
(* it ends without them only by an exception raised by an external call.   *)
(***************************************************************************)
\* the exceptions raised by a call to the TM store or to the MT backend
RaisedByCall == {QueryError, InsertError, KeyViolation, TransportError}

OneCallInFlight ==
    /\ Cardinality({ c \in 1..Len(calls) : calls[c].kind = "pending" })
         = (IF pc = "mt_wait" THEN 1 ELSE 0)
    /\ pc = "mt_wait" =>
         /\ calls[Len(calls)].kind = "pending"
         /\ j >= Len(translations)

BlockedWhileInFlight ==
    pc = "mt_wait" =>
      /\ Len(calls') = Len(calls)
      /\ calls'[Len(calls)].kind # "pending"
      /\ writes' = writes
      /\ inserts' = inserts
      /\ tm' = tm
      /\ file' = file
      /\ pc' # "returned"

C18_SequentialProgress ==
    /\ []OneCallInFlight
    /\ [][BlockedWhileInFlight]_vars
    /\ InRun ~> (Returned \/ (pc = "crashed" /\ error \in RaisedByCall))

(***************************************************************************)
(* C19.  Latency accounting per batch (HF, which has the RunMetrics): the  *)
(* latency samples a run adds are, batch call by batch call, one sample    *)
(* for every item that came back with a translation and has been written   *)
(* back, none for the other items, and every sample is the elapsed time of *)
(* the call divided by the number of texts sent in it.                     *)
(***************************************************************************)
\* the latency samples added since process_xlf_file was entered
NewSamples ==
    SubSeq(metrics.nmt_latencies, Len(metrics0.nmt_latencies) + 1,
           Len(metrics.nmt_latencies))
\* the translated items of call c the write-back has gone through
WrittenBack(c) ==
    IF c < Len(calls) THEN Translated(calls[c])
    ELSE { p \in Translated(calls[c]) : p <= j }
\* the number of samples due for the calls 1..c
RECURSIVE SamplesDue(_)
SamplesDue(c) == IF c = 0 THEN 0 ELSE SamplesDue(c - 1) + Cardinality(WrittenBack(c))

C19_LatencySamplesPerBatch ==
    variant = "HF" =>
      /\ Len(NewSamples) = SamplesDue(Len(calls))
      /\ \A c \in 1..Len(calls) :
           \A n \in (SamplesDue(c - 1) + 1)..SamplesDue(c) :
             \E latency \in Latencies :
               NewSamples[n] = <<latency, Len(calls[c].texts)>>
      /\ metrics.total_nmt_calls = metrics0.total_nmt_calls + Len(NewSamples)

\* a run has returned after a batch of two texts of which one came back
\* translated
C19_Witness ==
    /\ variant = "HF"
    /\ Returned
    /\ \E c \in 1..Len(calls) :
         /\ Len(calls[c].texts) = 2
         /\ Cardinality(Translated(calls[c])) = 1
    /\ Len(NewSamples) >= 1

(***************************************************************************)
(* C20.  RunMetrics.summary is a pure read: the step of main that calls it *)
(* leaves total_segments, total_tm_hits, total_nmt_calls, nmt_latencies    *)
(* and start_ts as they were; the object changes only by an add_segment;   *)
(* and two summaries with no add_segment between them report the same      *)
(* counts.                                                                 *)
(***************************************************************************)
\* the step of main that calls metrics.summary() (HF lines 264-285)
SummaryStep == variant = "HF" /\ pc = "uploaded" /\ pc' = "idle"
\* the arguments process_xlf_file gives to add_segment
AddSegmentArgs == { <<TRUE, NoLatency>>, <<FALSE, per_item_latency>> }

SummaryLeavesMetrics ==
    /\ SummaryStep => metrics' = metrics
    /\ metrics' # metrics =>
         \E a \in AddSegmentArgs : metrics' = add_segment(metrics, a[1], a[2])

SameCountsWithoutAddSegment ==
    \A n \in 1..(Len(history) - 1) :
      (variant = "HF" /\ history[n + 1].writes = <<>>)
        => history[n + 1].summary = history[n].summary

C20_SummaryIsPureRead ==
    /\ [][SummaryLeavesMetrics]_vars
    /\ []SameCountsWithoutAddSegment

\* main has logged two summaries with no add_segment between them, the
\* first after a document with counted segments
C20_Witness ==
    /\ variant = "HF"
    /\ Len(history) = 2
    /\ history[1].summary.total_segments > 0
    /\ history[2].writes = <<>>
    /\ history[2].calls # <<>>


(***************************************************************************)
(* C21: two pipeline runs that interleave on the same TM store, on         *)
(* documents sharing a source text whose (source text, target language)    *)
(* key is not cached yet, both complete and leave at most one TM entry     *)
(* for that key.                                                           *)
(***************************************************************************)
\* the first document of the first process and its language, also after it
FirstDocIn ==
    IF history # <<>> THEN history[1].doc_in
    ELSE [k \in 1..Len(doc) |-> doc[k].source]
FirstLang == IF history # <<>> THEN history[1].target_lang ELSE target_lang
\* process_xlf_file has ended for the first document, by return or exception
FirstEnded == history # <<>> \/ (runs = 1 /\ pc \in {"returned", "uploaded", "crashed"})
\* the second process ran, and both documents hold the key's text, the first
\* one no text twice
SharedKey ==
    /\ other.pc # "off"
    /\ FirstLang = OtherLang
    /\ \E k \in DOMAIN FirstDocIn : FirstDocIn[k] = OtherSource
    /\ \A k, m \in DOMAIN FirstDocIn : FirstDocIn[k] = FirstDocIn[m] => k = m
\* a process was ended by the key constraint while on its first document
EndedByKey ==
    \/ other.error = KeyViolation
    \/ history = <<>> /\ pc = "crashed" /\ error = KeyViolation

C21_InterleavedRunsShareOneEntry ==
    (SharedKey /\ FirstEnded /\ other.pc \in {"done", "crashed"}) =>
        /\ ~EndedByKey
        /\ Cardinality(Matching(tm, OtherSource, OtherLang)) <= 1


(***************************************************************************)
(* C22: after any sequence of add_segment calls total_nmt_calls equals     *)
(* the number of recorded latency samples, total_tm_hits and               *)
(* total_nmt_calls are at most total_segments, and no counter ever         *)
(* decreases; and as process_xlf_file calls it (a hit without latency, an  *)
(* MT success with latency and without tm_hit), total_segments equals      *)
(* total_tm_hits + total_nmt_calls at every point of a run.                *)
(***************************************************************************)
MetricsSound(m) ==
    /\ m.total_nmt_calls = Len(m.nmt_latencies)
    /\ m.total_tm_hits <= m.total_segments
    /\ m.total_nmt_calls <= m.total_segments
NoCounterDecreases(m, n) ==
    /\ n.total_segments >= m.total_segments
    /\ n.total_tm_hits >= m.total_tm_hits
    /\ n.total_nmt_calls >= m.total_nmt_calls
    /\ Len(n.nmt_latencies) >= Len(m.nmt_latencies)
\* every segment main's object has counted is a hit or an MT call
HitOrCall(m) == m.total_segments = m.total_tm_hits + m.total_nmt_calls

C22_RunMetricsInvariant ==
    /\ [](MetricsSound(rm) /\ MetricsSound(metrics) /\ HitOrCall(metrics))
    /\ [][NoCounterDecreases(rm, rm') /\ NoCounterDecreases(metrics, metrics')]_vars

\* the object outside main has taken calls that are both or neither a hit
\* and an MT call, and main's object a hit and an MT call, inside a run
C22_Witness ==
    /\ rm.total_segments = MaxAddSegment
    /\ rm.total_tm_hits + rm.total_nmt_calls > rm.total_segments
    /\ rm.total_nmt_calls >= 1
    /\ metrics.total_tm_hits >= 1
    /\ metrics.total_nmt_calls >= 1
    /\ pc \in {"cache", "batch", "mt_wait", "writeback"}


(***************************************************************************)
(* C23: every TM insert of a run has as key the source text of a pending   *)
(* (cache-miss) segment of the run with the run's target language, and as  *)
(* value the non-empty translation the backend returned at that text's     *)
(* position in its batch; no insert is issued for a cache-hit segment, for *)
(* a failed item, or twice for the same pending segment; in both variants. *)
(***************************************************************************)
\* insert n is the one of a pending segment and of the item returned for it
PairedInsert(n) ==
    LET ins == inserts[n]
        c == calls[ins.call]
    IN  /\ ins.pos <= Len(c.texts)
        /\ ins.pos <= Len(c.result)
        /\ c.units[ins.pos] \in PendingUnits
        /\ ins.SourceText = doc[c.units[ins.pos]].source
        /\ ins.TranslatedText = c.result[ins.pos]
        /\ \A m \in 1..Len(inserts) :
             (inserts[m].call = ins.call /\ inserts[m].pos = ins.pos) => m = n
\* the open transaction holds the rows of the inserts, under the run's language
InsertedRows ==
    InRun => txn = [n \in 1..Len(inserts) |->
                      Row(inserts[n].SourceText, target_lang, inserts[n].TranslatedText)]

C23_InsertsWellPaired ==
    /\ \A n \in 1..Len(inserts) :
         PairedInsert(n) /\ NonEmptyText(inserts[n].TranslatedText)
    /\ InsertedRows


(***************************************************************************)
(* C24: if a TM lookup or insert raises during process_xlf_file, the       *)
(* exception propagates, the document's TM transaction is never            *)
(* committed, the document file is not rewritten, and main neither         *)
(* uploads the translated blob nor deletes the raw blob: the raw input and *)
(* the committed TM contents are as before the document was started.       *)
(***************************************************************************)
\* a lookup or an insert raised in this document
AbortedByDb == pc = "crashed" /\ error \in {QueryError, InsertError, KeyViolation}
\* the blob of this iteration is in the translated container
UploadedThis == \E b \in trans_container : b.name = blob_name
\* the local file is the download: no target is set in it
FileAsDownloaded ==
    /\ Len(file) = Len(doc)
    /\ \A k \in 1..Len(file) : file[k] = Unit(doc[k].source)
\* a step inside process_xlf_file that is not its commit leaves the table,
\* the file and both containers as they are
NothingLeavesTheDocument ==
    (InRun /\ pc' # "returned") =>
        UNCHANGED << tm, file, raw, trans_container >>

C24_AbortLeavesNoPartialResult ==
    /\ [](AbortedByDb =>
            /\ txn = <<>>
            /\ FileAsDownloaded
            /\ blob_name.pos \in raw
            /\ ~UploadedThis)
    /\ [][NothingLeavesTheDocument]_vars
    /\ [][pc = "crashed" => pc' = "crashed"]_vars

\* the second document is aborted by an insert after an insert of it
\* succeeded and a target was set, the first having committed a row
C24_Witness ==
    /\ AbortedByDb
    /\ error \in {InsertError, KeyViolation}
    /\ inserts # <<>>
    /\ writes # <<>>
    /\ runs = 2
    /\ history # <<>>
    /\ history[1].inserts # <<>>


(***************************************************************************)
(* C25: the raw blob of a document is deleted only after process_xlf_file  *)
(* has returned for it and the translated file has been uploaded under the *)
(* same name; documents are handled strictly one after another; a blob     *)
(* whose name contains no "." is neither translated, uploaded nor deleted. *)
(* Hence at every moment each document is in the raw container or in the   *)
(* translated container.                                                   *)
(***************************************************************************)
\* the blob at position n of the listing is in the translated container
UploadedAt(n) == \E b \in trans_container : b.name.pos = n
\* main has listed a blob, and its name has no "."
Unnamed(name) == name # NoBlob /\ Len(name.parts) < 2
\* the step that deletes a raw blob deletes the one of this iteration, after
\* process_xlf_file has written the file and the file has been uploaded
DeleteAfterUpload ==
    raw' # raw =>
        /\ pc = "uploaded"
        /\ raw' = raw \ { blob_name.pos }
        /\ file = doc
        /\ [name |-> blob_name, data |-> file] \in trans_container
\* main goes to the next blob when it is through with the one before: that
\* one was skipped, or uploaded and deleted
OneAfterAnother ==
    blob_name' # blob_name =>
        /\ pc = "idle"
        /\ blob_name'.pos = blob_name.pos + 1
        /\ (blob_name # NoBlob /\ ~Unnamed(blob_name)) =>
              (blob_name.pos \notin raw /\ UploadedAt(blob_name.pos))
\* the iteration of a blob without "." in its name changes nothing
SkipTouchesNothing ==
    (blob_name' # blob_name /\ Unnamed(blob_name')) =>
        UNCHANGED << pc, tm, txn, doc, file, calls, writes, inserts, history, raw,
                     trans_container >>

C25_BlobHandOver ==
    /\ [](\A n \in 1..MaxRuns : n \in raw \/ UploadedAt(n))
    /\ [](Unnamed(blob_name) =>
            (pc = "idle" /\ blob_name.pos \in raw /\ ~UploadedAt(blob_name.pos)))
    /\ [][DeleteAfterUpload /\ OneAfterAnother /\ SkipTouchesNothing]_vars

\* the first document was uploaded and deleted, the second blob was skipped
C25_Witness ==
    /\ 1 \notin raw
    /\ UploadedAt(1)
    /\ Unnamed(blob_name)
    /\ blob_name.pos = 2
    /\ 2 \in raw


(***************************************************************************)
(* C26: empty translations are never stored or written: an empty TM entry  *)
(* is a miss for the cache phase, an MT result item that is empty or       *)
(* absent counts as not translated, so no TM insert carries an empty       *)
(* translated text and no target is set from an empty MT result.           *)
(***************************************************************************)
C26_NoEmptyTranslation ==
    /\ \A n \in 1..Len(inserts) : NonEmptyText(inserts[n].TranslatedText)
    /\ \A w \in 1..Len(writes) : NonEmptyText(writes[w].text)
    /\ \A n \in 1..Len(txn) : NonEmptyText(txn[n].TranslatedText)

=============================================================================
